---- MODULE Spec2Model ----
(***************************************************************************)
(* A model of KuruczDataset (src/model.py): the optical-depth integration, *)
(* the pad/truncate resampling, the log/min-max normalization statistics,  *)
(* normalize/denormalize, the constructor and the indexed access.          *)
(*                                                                         *)
(* Numbers.  A number is a pair <<n, d>> standing for the fraction n/d in  *)
(* lowest terms with d > 0.  The three pairs with d = 0 are the IEEE       *)
(* specials the code can produce: <<0,0>> is NaN, <<1,0>> is +inf,         *)
(* <<-1,0>> is -inf.  Sums, products and quotients are exact; log10 and    *)
(* pow(10, .) are rounded to a finite grid, as they are in float32.        *)
(***************************************************************************)
EXTENDS Integers, Sequences, FiniteSets

VARIABLES
    status,            \* "new" | "ready" | "failed": the constructor's outcome
    error,             \* the exception a failed constructor or call raised
    file_paths,        \* what the model reader returns for each discovered file
    skipped,           \* indices of the files the constructor's except clause skipped
    max_depth_points,  \* self.max_depth_points
    models,            \* self.models
    original,          \* self.original: feature name -> N x D (or N x 1) tensor
    norm_params,       \* self.norm_params: feature name -> [min, max, log_scale]
    normalized,        \* self.teff ... self.TAU: feature name -> normalized tensor
    call               \* the last method call made on the dataset and its result

vars == <<status, error, file_paths, skipped, max_depth_points, models,
          original, norm_params, normalized, call>>

-----------------------------------------------------------------------------
(* Bounds of the model. *)

\* most files the directory listing holds
MaxFiles == 2
\* longest native depth profile the model reader returns
MaxLen == 2
\* largest max_depth_points the constructor is given
MaxDepth == 2
\* log10 and pow(10, .) are rounded to multiples of 1/LogDen in the exponent
LogDen == 2
\* longest sequence handed to pad_sequence and calculate_tau called directly
MaxSeq == 3
\* largest target length handed to pad_sequence called directly
MaxTarget == 4

\* the exponent of the 1e-30 added before log10 and subtracted after pow
EpsExp == 30

-----------------------------------------------------------------------------
(* Exact fractions with the IEEE specials. *)

Abs(n) == IF n < 0 THEN -n ELSE n

Sign(n) == IF n < 0 THEN -1 ELSE IF n > 0 THEN 1 ELSE 0

RECURSIVE GCD(_, _)
GCD(a, b) == IF b = 0 THEN a ELSE GCD(b, a % b)

\* n/d in lowest terms; a zero denominator gives NaN or a signed infinity
Rat(n, d) ==
    IF d = 0 THEN <<Sign(n), 0>>
    ELSE LET g == GCD(Abs(n), Abs(d))
         IN  <<Sign(d) * (n \div g), Abs(d) \div g>>

Q(n) == <<n, 1>>

NaN == <<0, 0>>

IsNaN(a) == a = NaN

RAdd(a, b) ==
    IF a[2] = 0 /\ b[2] = 0
    THEN (IF a = b THEN a ELSE NaN)
    ELSE Rat(a[1] * b[2] + b[1] * a[2], a[2] * b[2])

RNeg(a) == <<-a[1], a[2]>>

RSub(a, b) == RAdd(a, RNeg(b))

RMul(a, b) == Rat(a[1] * b[1], a[2] * b[2])

RDiv(a, b) == Rat(a[1] * b[2], a[2] * b[1])

\* IEEE comparisons: every comparison with NaN is false
RLt(a, b) ==
    /\ ~IsNaN(a)
    /\ ~IsNaN(b)
    /\ IF a[2] = 0 \/ b[2] = 0
       THEN (IF a[2] = 0 /\ b[2] = 0 THEN a[1] < b[1]
             ELSE IF a[2] = 0 THEN a[1] < 0 ELSE b[1] > 0)
       ELSE a[1] * b[2] < b[1] * a[2]

RLe(a, b) == ~IsNaN(a) /\ ~IsNaN(b) /\ (a = b \/ RLt(a, b))

RECURSIVE IPow(_, _)
IPow(b, e) == IF e = 0 THEN 1 ELSE b * IPow(b, e - 1)

-----------------------------------------------------------------------------
(* torch.log10(data + 1e-30) and torch.pow(10.0, x) - 1e-30. *)

\* floor(log10(num/den)) for num, den > 0
RECURSIVE Log10Floor(_, _)
Log10Floor(num, den) ==
    IF num < den THEN Log10Floor(num * 10, den) - 1
    ELSE IF num >= 10 * den THEN Log10Floor(num, den * 10) + 1
    ELSE 0

\* log10 of a positive fraction, rounded down to a multiple of 1/LogDen
FixLog10(v) == Rat(Log10Floor(IPow(v[1], LogDen), IPow(v[2], LogDen)), LogDen)

\* torch.log10(data + 1e-30), one element: 0 + 1e-30 is 1e-30, whose log10 is
\* -30; a positive value absorbs the 1e-30; a negative one stays negative and
\* its logarithm is NaN
Log10Eps(v) ==
    IF IsNaN(v) THEN NaN
    ELSE IF v[2] = 0 THEN (IF v[1] > 0 THEN v ELSE NaN)
    ELSE IF v[1] = 0 THEN Q(-EpsExp)
    ELSE IF v[1] < 0 THEN NaN
    ELSE FixLog10(v)

\* the least m >= lo with m^b >= 10^a   (a >= 0, b > 0)
RECURSIVE RootCeil(_, _, _)
RootCeil(a, b, lo) ==
    IF IPow(lo, b) >= IPow(10, a) THEN lo ELSE RootCeil(a, b, lo + 1)

\* the greatest m >= lo with m^b <= 10^a   (a >= 0, b > 0)
RECURSIVE RootFloor(_, _, _)
RootFloor(a, b, lo) ==
    IF IPow(lo + 1, b) > IPow(10, a) THEN lo ELSE RootFloor(a, b, lo + 1)

\* 10^(a/b) rounded up to the value grid: the integers, and below 1 the
\* reciprocals of the integers
FixPow10(x) ==
    IF x[1] >= 0 THEN Q(RootCeil(x[1], x[2], 1))
    ELSE Rat(1, RootFloor(-x[1], x[2], 1))

\* torch.pow(10.0, x) - 1e-30, one element: 10^-30 - 1e-30 is 0; any larger
\* power absorbs the 1e-30
Pow10Eps(x) ==
    IF IsNaN(x) THEN NaN
    ELSE IF x[2] = 0 THEN (IF x[1] > 0 THEN x ELSE Q(0))
    ELSE IF x = Q(-EpsExp) THEN Q(0)
    ELSE FixPow10(x)

-----------------------------------------------------------------------------
(* The feature names. *)

ScalarFeatures == {"teff", "gravity", "feh", "afe"}

\* the depth profiles the model reader returns
ProfileFeatures == {"RHOX", "T", "P", "XNE", "ABROSS", "ACCRAD"}

SequenceFeatures == ProfileFeatures \cup {"TAU"}

Features == ScalarFeatures \cup SequenceFeatures

\* setup_normalization's log_params
log_params == {"teff", "RHOX", "P", "XNE", "ABROSS", "ACCRAD", "TAU"}

-----------------------------------------------------------------------------
(* pad_sequence and calculate_tau. *)

\* mutation of pad_sequence: pads with the first element instead of the last
pad_sequence_first(values, target_length) ==
    IF Len(values) >= target_length
    THEN [err |-> "none", out |-> SubSeq(values, 1, target_length)]
    ELSE IF Len(values) = 0
    THEN [err |-> "IndexError", out |-> <<>>]
    ELSE [err |-> "none",
          out |-> values \o [k \in 1..(target_length - Len(values)) |-> values[1]]]

\* values[-1] of an empty list raises IndexError
pad_sequence(values, target_length) ==
    IF Len(values) >= target_length
    THEN [err |-> "none", out |-> SubSeq(values, 1, target_length)]
    ELSE IF Len(values) = 0
    THEN [err |-> "IndexError", out |-> <<>>]
    ELSE [err |-> "none",
          out |-> values \o [k \in 1..(target_length - Len(values))
                                |-> values[Len(values)]]]

\* mutation of the loop of calculate_tau: the opacity of the inner point
\* instead of the average of the two (rectangle rule)
RECURSIVE TauUpTo_rect(_, _, _)
TauUpTo_rect(rhox, abross, k) ==
    IF k = 1 THEN <<Q(0)>>
    ELSE LET tau == TauUpTo_rect(rhox, abross, k - 1)
             delta_rhox == RSub(rhox[k], rhox[k - 1])
             delta_tau == RMul(abross[k], delta_rhox)
         IN  Append(tau, RAdd(tau[k - 1], delta_tau))

\* mutation of the loop of calculate_tau: the column density itself instead
\* of its increment
RECURSIVE TauUpTo_nodelta(_, _, _)
TauUpTo_nodelta(rhox, abross, k) ==
    IF k = 1 THEN <<Q(0)>>
    ELSE LET tau == TauUpTo_nodelta(rhox, abross, k - 1)
             avg_opacity == RDiv(RAdd(abross[k], abross[k - 1]), Q(2))
             delta_tau == RMul(avg_opacity, rhox[k])
         IN  Append(tau, RAdd(tau[k - 1], delta_tau))

\* tau[0..k-1] of the loop of calculate_tau, for k >= 1 (1-based here)
RECURSIVE TauUpTo(_, _, _)
TauUpTo(rhox, abross, k) ==
    IF k = 1 THEN <<Q(0)>>
    ELSE LET tau == TauUpTo(rhox, abross, k - 1)
             delta_rhox == RSub(rhox[k], rhox[k - 1])
             avg_opacity == RDiv(RAdd(abross[k], abross[k - 1]), Q(2))
             delta_tau == RMul(avg_opacity, delta_rhox)
         IN  Append(tau, RAdd(tau[k - 1], delta_tau))

\* The loop reads abross[i] for i = 1 .. len(rhox)-1: a shorter ABROSS raises
\* IndexError as soon as the loop runs, a longer one is never looked at.
calculate_tau(model) ==
    LET rhox == model.RHOX
        abross == model.ABROSS
    IN  IF Len(rhox) >= 2 /\ Len(abross) < Len(rhox)
        THEN [err |-> "IndexError", TAU |-> <<>>]
        ELSE [err |-> "none",
              TAU |-> IF Len(rhox) = 0 THEN <<>>
                      ELSE TauUpTo(rhox, abross, Len(rhox))]

\* lines 148-154 of prepare_data: every profile of one model, TAU included,
\* padded or truncated to max_depth_points
PadProfiles(model, depth) ==
    [f \in SequenceFeatures |-> pad_sequence(model[f], depth)]

-----------------------------------------------------------------------------
(* Tensors: an N x D tensor is a sequence of N rows of D numbers.  A        *)
(* statistic is [shape, val]: shape <<>> with one value for a 0-dim tensor, *)
(* shape <<D>> with D values for a vector.                                  *)

Shape(t) == IF Len(t) = 0 THEN <<0>> ELSE <<Len(t), Len(t[1])>>

\* tensor.dim()
Dim(t) == Len(Shape(t))

Elements(t) == {t[m][d] : m \in 1..Len(t), d \in 1..Len(t[1])}

\* the least (greatest) of a non-empty set of numbers; NaN if NaN is among them
MinOf(S) == IF NaN \in S THEN NaN ELSE CHOOSE x \in S : \A y \in S : RLe(x, y)

MaxOf(S) == IF NaN \in S THEN NaN ELSE CHOOSE x \in S : \A y \in S : RLe(y, x)

\* tensor.min() and tensor.max(): one number over every element
TensorMin(t) == [shape |-> <<>>, val |-> <<MinOf(Elements(t))>>]

TensorMax(t) == [shape |-> <<>>, val |-> <<MaxOf(Elements(t))>>]

\* tensor.min(dim=0).values and tensor.max(dim=0).values: reduced over the
\* first (sample) dimension only
MinDim0(t) ==
    [shape |-> <<Len(t[1])>>,
     val |-> [d \in 1..Len(t[1]) |-> MinOf({t[m][d] : m \in 1..Len(t)})]]

MaxDim0(t) ==
    [shape |-> <<Len(t[1])>>,
     val |-> [d \in 1..Len(t[1]) |-> MaxOf({t[m][d] : m \in 1..Len(t)})]]

\* broadcasting a statistic against position d of a row
StatAt(stat, d) == IF stat.shape = <<>> THEN stat.val[1] ELSE stat.val[d]

-----------------------------------------------------------------------------
(* prepare_data, setup_normalization, normalize, denormalize. *)

\* an absent feh or afe is <<>>, a present one <<v>>
None == <<>>

\* model['feh'] if model['feh'] is not None else 0.0
OrZero(opt) == IF opt # None THEN opt[1] ELSE Q(0)

\* The lists of prepare_data turned into self.original.  A profile that
\* pad_sequence cannot pad raises IndexError out of the constructor.
prepare_data(self_models, depth) ==
    LET failed == \E m \in 1..Len(self_models) :
                     \E f \in SequenceFeatures :
                        PadProfiles(self_models[m], depth)[f].err # "none"
    IN  IF failed THEN [err |-> "IndexError"]
        ELSE [err |-> "none",
              original |->
                [f \in Features |->
                   [m \in 1..Len(self_models) |->
                      IF f = "teff" THEN <<self_models[m].teff>>
                      ELSE IF f = "gravity" THEN <<self_models[m].gravity>>
                      ELSE IF f = "feh" THEN <<OrZero(self_models[m].feh)>>
                      ELSE IF f = "afe" THEN <<OrZero(self_models[m].afe)>>
                      ELSE PadProfiles(self_models[m], depth)[f].out]]]

\* the transform both setup_normalization and normalize apply to an element
Transform(log_scale, v) == IF log_scale THEN Log10Eps(v) ELSE v

\* Every tensor of self.original is 2-dimensional ((N,1) or (N,D)), so the
\* test dim() > 2 decides which reduction is taken.
setup_normalization(self_original) ==
    [param_name \in Features |->
       LET log_scale == param_name \in log_params
           data == self_original[param_name]
           transformed_data ==
               [m \in 1..Len(data) |->
                  [d \in 1..Len(data[m]) |-> Transform(log_scale, data[m][d])]]
       IN  IF Dim(transformed_data) > 2
           THEN [min |-> MinDim0(transformed_data),
                 max |-> MaxDim0(transformed_data),
                 log_scale |-> log_scale]
           ELSE [min |-> TensorMin(transformed_data),
                 max |-> TensorMax(transformed_data),
                 log_scale |-> log_scale]]

\* mutation of normalize: scaled by max instead of max - min
NormalizeAt_bymax(params, d, v) ==
    LET transformed_data == Transform(params.log_scale, v)
        lo == StatAt(params.min, d)
        hi == StatAt(params.max, d)
    IN  RSub(RDiv(RMul(Q(2), RSub(transformed_data, lo)), hi), Q(1))

\* normalize, one element at depth position d
NormalizeAt(params, d, v) ==
    LET transformed_data == Transform(params.log_scale, v)
        lo == StatAt(params.min, d)
        hi == StatAt(params.max, d)
    IN  RSub(RDiv(RMul(Q(2), RSub(transformed_data, lo)), RSub(hi, lo)), Q(1))

normalize(self_norm_params, param_name, data) ==
    [m \in 1..Len(data) |->
       [d \in 1..Len(data[m]) |->
          NormalizeAt(self_norm_params[param_name], d, data[m][d])]]

\* mutation of denormalize: the log transform is not reversed
DenormalizeAt_nolog(params, d, n) ==
    LET lo == StatAt(params.min, d)
        hi == StatAt(params.max, d)
    IN  RAdd(RMul(RDiv(RAdd(n, Q(1)), Q(2)), RSub(hi, lo)), lo)

\* denormalize, one element at depth position d
DenormalizeAt(params, d, n) ==
    LET lo == StatAt(params.min, d)
        hi == StatAt(params.max, d)
        transformed_data ==
            RAdd(RMul(RDiv(RAdd(n, Q(1)), Q(2)), RSub(hi, lo)), lo)
    IN  IF params.log_scale THEN Pow10Eps(transformed_data) ELSE transformed_data

denormalize(self_norm_params, param_name, normalized_data) ==
    [m \in 1..Len(normalized_data) |->
       [d \in 1..Len(normalized_data[m]) |->
          DenormalizeAt(self_norm_params[param_name], d, normalized_data[m][d])]]

normalize_all_data(self_norm_params, self_original) ==
    [f \in Features |-> normalize(self_norm_params, f, self_original[f])]

-----------------------------------------------------------------------------
(* __getitem__, __len__, inverse_transform_outputs. *)

\* len(self.teff)
len(self_normalized) == Len(self_normalized["teff"])

\* the 1-based row a 0-based (or negative, counted from the end) index names
Row(self_normalized, idx) ==
    IF idx < 0 THEN len(self_normalized) + idx + 1 ELSE idx + 1

\* mutation of __getitem__: P and XNE stacked in the other order
getitem_swapped(self_normalized, idx) ==
    IF idx < -len(self_normalized) \/ idx >= len(self_normalized)
    THEN [err |-> "IndexError"]
    ELSE LET row == Row(self_normalized, idx)
             tau_features == self_normalized["TAU"][row]
             stellar_params == self_normalized["teff"][row]
                               \o self_normalized["gravity"][row]
                               \o self_normalized["feh"][row]
                               \o self_normalized["afe"][row]
             depth_points == Len(tau_features)
         IN  [err |-> "none",
              input_features |->
                  [d \in 1..depth_points |-> Append(stellar_params, tau_features[d])],
              output_features |->
                  [d \in 1..Len(self_normalized["RHOX"][row]) |->
                     << self_normalized["RHOX"][row][d],
                        self_normalized["T"][row][d],
                        self_normalized["XNE"][row][d],
                        self_normalized["P"][row][d],
                        self_normalized["ABROSS"][row][d],
                        self_normalized["ACCRAD"][row][d] >>]]

\* idx is 0-based, as in the code; rows and columns are 1-based here
getitem(self_normalized, idx) ==
    IF idx < -len(self_normalized) \/ idx >= len(self_normalized)
    THEN [err |-> "IndexError"]
    ELSE LET row == Row(self_normalized, idx)
             tau_features == self_normalized["TAU"][row]
             stellar_params == self_normalized["teff"][row]
                               \o self_normalized["gravity"][row]
                               \o self_normalized["feh"][row]
                               \o self_normalized["afe"][row]
             depth_points == Len(tau_features)
             expanded_params == [d \in 1..depth_points |-> stellar_params]
             tau_reshaped == [d \in 1..depth_points |-> <<tau_features[d]>>]
         IN  [err |-> "none",
              input_features |->
                  [d \in 1..depth_points |-> expanded_params[d] \o tau_reshaped[d]],
              output_features |->
                  [d \in 1..Len(self_normalized["RHOX"][row]) |->
                     << self_normalized["RHOX"][row][d],
                        self_normalized["T"][row][d],
                        self_normalized["P"][row][d],
                        self_normalized["XNE"][row][d],
                        self_normalized["ABROSS"][row][d],
                        self_normalized["ACCRAD"][row][d] >>]]

\* the column list of inverse_transform_outputs
columns == <<"RHOX", "T", "P", "XNE", "ABROSS", "ACCRAD", "TAU">>

\* outputs[:, :, i] for the 0-based column i
Column(outputs, i) ==
    [b \in 1..Len(outputs) |->
       [d \in 1..Len(outputs[b]) |-> outputs[b][d][i + 1]]]

\* outputs is batch x depth x num_features.  The loop runs over all of
\* columns; outputs[:, :, i] raises IndexError for i >= num_features.
inverse_transform_outputs(self_norm_params, outputs) ==
    LET num_features == Len(outputs[1][1])
    IN  IF \E i \in 0..(Len(columns) - 1) : i >= num_features
        THEN [err |-> "IndexError"]
        ELSE [err |-> "none",
              result |->
                  [param_name \in {columns[i + 1] : i \in 0..(Len(columns) - 1)} |->
                     LET i == CHOOSE j \in 0..(Len(columns) - 1) :
                                  columns[j + 1] = param_name
                     IN  denormalize(self_norm_params, param_name,
                                     Column(outputs, i))]]

-----------------------------------------------------------------------------
(* What the model reader returns. *)

\* the first n entries of a profile
Prefix(seq, n) == SubSeq(seq, 1, n)

\* two stars: their stellar parameters and their thermodynamic profiles
Star(s, n) ==
    [teff    |-> IF s = 1 THEN Q(10) ELSE Q(100),
     gravity |-> IF s = 1 THEN Q(2) ELSE Q(4),
     feh     |-> IF s = 1 THEN None ELSE <<Q(-1)>>,
     afe     |-> IF s = 1 THEN None ELSE <<Rat(1, 2)>>,
     T       |-> Prefix([i \in 1..(MaxLen + 1) |-> Q(3 * s + 2 * i)], n),
     P       |-> Prefix([i \in 1..(MaxLen + 1) |-> Q(s * i * i)], n),
     XNE     |-> Prefix([i \in 1..(MaxLen + 1) |-> Q(5 * s)], n),
     ACCRAD  |-> Prefix([i \in 1..(MaxLen + 1) |-> Rat(i, s)], n)]

\* three column-density/opacity pairs: the example of the description (rhox
\* 0,1,2 with abross 2,4,6), a constant opacity, and a column density that
\* decreases inwards, whose tau is negative
ColumnProfile(c, n) ==
    [RHOX   |-> Prefix([i \in 1..(MaxLen + 1) |->
                          IF c = 1 THEN Q(i - 1)
                          ELSE IF c = 2 THEN Q(3 * i)
                          ELSE Q(15 - 3 * i)], n),
     ABROSS |-> Prefix([i \in 1..(MaxLen + 1) |->
                          IF c = 1 THEN Q(2 * i)
                          ELSE IF c = 2 THEN Q(1)
                          ELSE Q(2 * i - 1)], n)]

MakeModel(s, c, n, nr, na) ==
    [f \in ScalarFeatures \cup ProfileFeatures |->
       IF f = "RHOX" THEN ColumnProfile(c, nr).RHOX
       ELSE IF f = "ABROSS" THEN ColumnProfile(c, na).ABROSS
       ELSE Star(s, n)[f]]

\* the (star, column profile) pairs the reader returns
Kinds == {<<1, 1>>, <<2, 2>>, <<2, 3>>}

\* the records the reader's contract allows: profiles of one length >= 1
Models == {MakeModel(k[1], k[2], n, n, n) : k \in Kinds, n \in 1..MaxLen}

\* records whose RHOX and ABROSS differ in length, beside the well-formed ones
RawModels ==
    Models \cup {MakeModel(s, 1, n, nr, na) :
                   s \in 1..2, n \in 1..MaxLen, nr \in 1..MaxLen, na \in 1..MaxLen}

\* a discovered file: read_kurucz_model raises, or returns a record
Files(Domain) == {[ok |-> FALSE]} \cup {[ok |-> TRUE, model |-> m] : m \in Domain}

FileLists(Domain) == UNION {[1..k -> Files(Domain)] : k \in 0..MaxFiles}

-----------------------------------------------------------------------------
(* The constructor. *)

\* model['TAU'] = tau.tolist()
WithTau(model, tau) ==
    [f \in DOMAIN model \cup {"TAU"} |-> IF f = "TAU" THEN tau ELSE model[f]]

\* mutation of the loading loop: the first file that fails ends the loop
RECURSIVE LoadModels_break(_)
LoadModels_break(files) ==
    IF Len(files) = 0 THEN [models |-> <<>>, skipped |-> {}]
    ELSE LET before == LoadModels_break(SubSeq(files, 1, Len(files) - 1))
             file == files[Len(files)]
             tau == calculate_tau(file.model)
         IN  IF before.skipped # {} THEN before
             ELSE IF ~file.ok
             THEN [before EXCEPT !.skipped = @ \cup {Len(files)}]
             ELSE IF tau.err # "none"
             THEN [before EXCEPT !.skipped = @ \cup {Len(files)}]
             ELSE [before EXCEPT !.models = Append(@, WithTau(file.model, tau.TAU))]

\* The loop over self.file_paths: an exception of read_kurucz_model or of
\* calculate_tau is caught, reported and the file left out.
RECURSIVE LoadModels(_)
LoadModels(files) ==
    IF Len(files) = 0 THEN [models |-> <<>>, skipped |-> {}]
    ELSE LET before == LoadModels(SubSeq(files, 1, Len(files) - 1))
             file == files[Len(files)]
             tau == calculate_tau(file.model)
         IN  IF ~file.ok
             THEN [before EXCEPT !.skipped = @ \cup {Len(files)}]
             ELSE IF tau.err # "none"
             THEN [before EXCEPT !.skipped = @ \cup {Len(files)}]
             ELSE [before EXCEPT !.models = Append(@, WithTau(file.model, tau.TAU))]

NoCall == [op |-> "none"]

Init ==
    /\ status = "new"
    /\ error = "none"
    /\ file_paths = <<>>
    /\ skipped = {}
    /\ max_depth_points = 0
    /\ models = <<>>
    /\ original = <<>>
    /\ norm_params = <<>>
    /\ normalized = <<>>
    /\ call = NoCall

\* __init__ over the files of the directory, each read as a member of Domain
Construct(Domain) ==
    /\ status = "new"
    /\ \E files \in FileLists(Domain), depth \in 1..MaxDepth :
          /\ file_paths' = files
          /\ max_depth_points' = depth
          /\ LET loaded == LoadModels(files)
             IN  /\ models' = loaded.models
                 /\ skipped' = loaded.skipped
          /\ IF Len(models') = 0
             THEN /\ status' = "failed"
                  /\ error' = "ValueError"
                  /\ UNCHANGED <<original, norm_params, normalized>>
             ELSE LET prepared == prepare_data(models', depth)
                  IN  IF prepared.err # "none"
                      THEN /\ status' = "failed"
                           /\ error' = prepared.err
                           /\ UNCHANGED <<original, norm_params, normalized>>
                      ELSE /\ status' = "ready"
                           /\ error' = "none"
                           /\ original' = prepared.original
                           /\ norm_params' = setup_normalization(original')
                           /\ normalized' = normalize_all_data(norm_params', original')
    /\ UNCHANGED call

\* the reader keeps its contract
construct == Construct(Models)

\* the reader may return RHOX and ABROSS of different lengths
construct_raw == Construct(RawModels)

dataset == <<status, error, file_paths, skipped, max_depth_points, models,
             original, norm_params, normalized>>

-----------------------------------------------------------------------------
(* Calls on a constructed dataset.  No call changes the dataset, so every   *)
(* call is made on the dataset as constructed (call = NoCall) and call      *)
(* records it; denormalize_call continues a normalize_call.                 *)

len_call ==
    /\ status = "ready"
    /\ call = NoCall
    /\ call' = [op |-> "len", out |-> len(normalized)]
    /\ UNCHANGED dataset

\* idx = len(self) is the first index out of range, idx = -1 names the last
\* sample
getitem_call ==
    /\ status = "ready"
    /\ call = NoCall
    /\ \E idx \in (-1)..len(normalized) :
          call' = [op |-> "getitem", idx |-> idx, item |-> getitem(normalized, idx)]
    /\ UNCHANGED dataset

\* A batch of one network output: the six output columns of a sample, or
\* those and the sample's tau column as a seventh.
OutputBatch(idx, num_features) ==
    LET item == getitem(normalized, idx)
    IN  << [d \in 1..Len(item.output_features) |->
              IF num_features = 6 THEN item.output_features[d]
              ELSE Append(item.output_features[d], item.input_features[d][5])] >>

inverse_transform_outputs_call ==
    /\ status = "ready"
    /\ call = NoCall
    /\ \E idx \in 0..(len(normalized) - 1), num_features \in {6, 7} :
          LET outputs == OutputBatch(idx, num_features)
          IN  call' = [op |-> "inverse_transform_outputs",
                       outputs |-> outputs,
                       num_features |-> num_features,
                       ret |-> inverse_transform_outputs(norm_params, outputs)]
    /\ UNCHANGED dataset

\* values handed to normalize beside the fitted ones, as a 1 x 6 tensor
Probe == << <<Rat(-1, 2), Rat(1, 4), Q(3), Q(7), Q(10), Q(32)>> >>

\* normalize applied to the tensor the statistics of the feature were fitted
\* on, or to the probe values
normalize_call ==
    /\ status = "ready"
    /\ call = NoCall
    /\ \E param_name \in Features :
        \E data \in {original[param_name], Probe} :
          call' = [op |-> "normalize",
                   param_name |-> param_name,
                   data |-> data,
                   out |-> normalize(norm_params, param_name, data)]
    /\ UNCHANGED dataset

\* denormalize applied to what the last normalize returned
denormalize_call ==
    /\ status = "ready"
    /\ call.op = "normalize"
    /\ call' = [op |-> "denormalize",
                param_name |-> call.param_name,
                data |-> call.data,
                normalized_data |-> call.out,
                out |-> denormalize(norm_params, call.param_name, call.out)]
    /\ UNCHANGED dataset

Next ==
    \/ construct
    \/ len_call
    \/ getitem_call
    \/ inverse_transform_outputs_call
    \/ normalize_call
    \/ denormalize_call

Spec == Init /\ [][Next]_vars

NextRaw ==
    \/ construct_raw
    \/ len_call
    \/ getitem_call

SpecRaw == Init /\ [][NextRaw]_vars

-----------------------------------------------------------------------------
(* pad_sequence and calculate_tau called on their own: the initial state  *)
(* holds the arguments of one call, the action makes it.                   *)

\* the numbers the directly called functions are given
FnVals == {Q(0), Q(1), Q(2), Q(5)}

SeqsOver(S, n) == UNION {[1..k -> S] : k \in 0..n}

PadArgs ==
    {[op |-> "pad_sequence_args", values |-> values, target_length |-> target_length] :
        values \in SeqsOver(FnVals, MaxSeq), target_length \in 0..MaxTarget}

TauArgs ==
    {[op |-> "calculate_tau_args", model |-> [RHOX |-> rhox, ABROSS |-> abross]] :
        rhox \in SeqsOver(FnVals, MaxSeq), abross \in SeqsOver({Q(1), Q(2)}, MaxSeq)}

InitFn ==
    /\ status = "new"
    /\ error = "none"
    /\ file_paths = <<>>
    /\ skipped = {}
    /\ max_depth_points = 0
    /\ models = <<>>
    /\ original = <<>>
    /\ norm_params = <<>>
    /\ normalized = <<>>
    /\ call \in PadArgs \cup TauArgs

pad_sequence_call ==
    /\ call.op = "pad_sequence_args"
    /\ call' = [op |-> "pad_sequence",
                values |-> call.values,
                target_length |-> call.target_length,
                ret |-> pad_sequence(call.values, call.target_length)]
    /\ UNCHANGED dataset

calculate_tau_call ==
    /\ call.op = "calculate_tau_args"
    /\ call' = [op |-> "calculate_tau",
                model |-> call.model,
                ret |-> calculate_tau(call.model)]
    /\ UNCHANGED dataset

\* the constructor's path for one model: TAU from the native profiles
\* (line 78), then every profile padded or truncated (lines 148-154)
resample_call ==
    /\ call.op = "calculate_tau"
    /\ call.ret.err = "none"
    /\ \E depth \in 1..MaxTarget :
          call' = [op |-> "resample",
                   model |-> call.model,
                   depth |-> depth,
                   rhox |-> pad_sequence(call.model.RHOX, depth),
                   abross |-> pad_sequence(call.model.ABROSS, depth),
                   tau |-> pad_sequence(call.ret.TAU, depth)]
    /\ UNCHANGED dataset

NextFn ==
    \/ pad_sequence_call
    \/ calculate_tau_call
    \/ resample_call

SpecFn == InitFn /\ [][NextFn]_vars

-----------------------------------------------------------------------------
(* The claims. *)

\* the statistic a feature would have if it were reduced over the models only
PerDepthMin(f) ==
    [d \in 1..max_depth_points |->
       MinOf({Transform(f \in log_params, original[f][m][d]) : m \in 1..Len(original[f])})]

PerDepthMax(f) ==
    [d \in 1..max_depth_points |->
       MaxOf({Transform(f \in log_params, original[f][m][d]) : m \in 1..Len(original[f])})]

\* C1: for every sequence feature of a constructed dataset and every depth
\* index d, the stored min and max at d (min[d], max[d], as normalize reads
\* them) are the minimum and maximum over the models only of the transformed
\* value at depth d, not one minimum and maximum over all models and depths.
C1_PerDepthStatistics ==
    status = "ready" =>
        \A f \in SequenceFeatures : \A d \in 1..max_depth_points :
            /\ StatAt(norm_params[f].min, d) = PerDepthMin(f)[d]
            /\ StatAt(norm_params[f].max, d) = PerDepthMax(f)[d]

\* C2: inverse_transform_outputs on a (batch, depth, 6) tensor completes
\* without error and binds each of the six output names to denormalize of its
\* own column; no column outside 0..5 is read.
C2_InverseTransformSixChannels ==
    (call.op = "inverse_transform_outputs" /\ call.num_features = 6) =>
        /\ call.ret.err = "none"
        /\ \A i \in 0..5 :
              call.ret.result[columns[i + 1]] =
                  denormalize(norm_params, columns[i + 1], Column(call.outputs, i))

\* a positive integer power of ten, whose log10 the grid holds exactly
IsPowerOfTen(v) == \E k \in 0..9 : v = Q(IPow(10, k))

\* C3: for a feature whose fitted bounds satisfy min < max, denormalize of
\* normalize of a value of the fit range gives the value back: exactly for a
\* linear-scaled feature; for a log-scaled one exactly when the value is 0 or
\* a power of ten, and otherwise to within the rounding of log10 (the result
\* has the same rounded logarithm as the value).
C3_RoundTrip ==
    call.op = "denormalize" =>
        LET p == norm_params[call.param_name]
        IN  \A m \in 1..Len(call.data) : \A d \in 1..Len(call.data[m]) :
              LET v == call.data[m][d]
                  t == Transform(p.log_scale, v)
                  lo == StatAt(p.min, d)
                  hi == StatAt(p.max, d)
                  back == call.out[m][d]
              IN  (RLt(lo, hi) /\ RLe(lo, t) /\ RLe(t, hi)) =>
                    IF p.log_scale
                    THEN /\ Log10Eps(back) = Log10Eps(v)
                         /\ (v = Q(0) \/ IsPowerOfTen(v)) => back = v
                    ELSE back = v

\* a linear-scaled feature and a value strictly inside its fit range, which
\* is not one of the fitted values
C3_Witness ==
    /\ call.op = "denormalize"
    /\ call.param_name = "gravity"
    /\ norm_params["gravity"].min.val[1] = Q(2)
    /\ norm_params["gravity"].max.val[1] = Q(4)
    /\ call.data = Probe
    /\ call.normalized_data[1][3] = Q(0)
    /\ call.out[1][3] = Q(3)

\* C4: after construction, for every feature whose fitted min is below its
\* fitted max, every element of the stored normalized tensor lies in [-1, 1];
\* an element whose transformed value is the fitted min is exactly -1 and one
\* whose transformed value is the fitted max is exactly +1.  (No call changes
\* the stored tensors, so they are looked at as the constructor leaves them.)
C4_NormalizedRange ==
    (status = "ready" /\ call = NoCall) =>
        \A f \in Features :
          \A m \in 1..Len(original[f]) : \A d \in 1..Len(original[f][m]) :
            LET lo == StatAt(norm_params[f].min, d)
                hi == StatAt(norm_params[f].max, d)
                t == Transform(norm_params[f].log_scale, original[f][m][d])
                n == normalized[f][m][d]
            IN  RLt(lo, hi) =>
                  /\ RLe(Q(-1), n)
                  /\ RLe(n, Q(1))
                  /\ (t = lo) => (n = Q(-1))
                  /\ (t = hi) => (n = Q(1))

C4_Witness ==
    /\ status = "ready"
    /\ RLt(norm_params["T"].min.val[1], norm_params["T"].max.val[1])
    /\ \E m \in 1..Len(normalized["T"]) : \E d \in 1..Len(normalized["T"][m]) :
          /\ RLt(Q(-1), normalized["T"][m][d])
          /\ RLt(normalized["T"][m][d], Q(1))
    /\ \E m \in 1..Len(normalized["T"]) : \E d \in 1..Len(normalized["T"][m]) :
          normalized["T"][m][d] = Q(-1)
    /\ \E m \in 1..Len(normalized["T"]) : \E d \in 1..Len(normalized["T"][m]) :
          normalized["T"][m][d] = Q(1)

Min2(a, b) == IF a < b THEN a ELSE b

\* C5: for a non-empty sequence and a target length L >= 1, pad_sequence
\* returns exactly L elements: the first min(len, L) elements of the input in
\* order, then copies of its last element; pad_sequence([1,2,3], 5) is
\* [1,2,3,3,3] and pad_sequence([1,2,3,4,5,6], 4) is [1,2,3,4].
C5_PadSequence ==
    /\ pad_sequence(<<1, 2, 3>>, 5) = [err |-> "none", out |-> <<1, 2, 3, 3, 3>>]
    /\ pad_sequence(<<1, 2, 3, 4, 5, 6>>, 4) = [err |-> "none", out |-> <<1, 2, 3, 4>>]
    /\ (/\ call.op = "pad_sequence"
        /\ Len(call.values) >= 1
        /\ call.target_length >= 1) =>
          /\ call.ret.err = "none"
          /\ Len(call.ret.out) = call.target_length
          /\ \A i \in 1..Min2(Len(call.values), call.target_length) :
                call.ret.out[i] = call.values[i]
          /\ \A i \in (Len(call.values) + 1)..call.target_length :
                call.ret.out[i] = call.values[Len(call.values)]

C5_Witness ==
    /\ call.op = "pad_sequence"
    /\ call.values = <<Q(1), Q(2)>>
    /\ call.target_length = 4
    /\ call.ret.out = <<Q(1), Q(2), Q(2), Q(2)>>

\* C6: for RHOX and ABROSS of one length n >= 1, calculate_tau stores a TAU
\* of length n with tau[0] = 0 and tau[i] = tau[i-1] + (abross[i] +
\* abross[i-1]) / 2 * (rhox[i] - rhox[i-1]), negative deltas included;
\* rhox 0,1,2 with abross 2,4,6 gives 0,3,8.
C6_TauTrapezoid ==
    /\ calculate_tau([RHOX |-> <<Q(0), Q(1), Q(2)>>, ABROSS |-> <<Q(2), Q(4), Q(6)>>])
           = [err |-> "none", TAU |-> <<Q(0), Q(3), Q(8)>>]
    /\ (/\ call.op = "calculate_tau"
        /\ Len(call.model.RHOX) = Len(call.model.ABROSS)
        /\ Len(call.model.RHOX) >= 1) =>
          LET rhox == call.model.RHOX
              abross == call.model.ABROSS
              tau == call.ret.TAU
          IN  /\ call.ret.err = "none"
              /\ Len(tau) = Len(rhox)
              /\ tau[1] = Q(0)
              /\ \A i \in 2..Len(rhox) :
                    tau[i] = RAdd(tau[i - 1],
                                  RMul(RDiv(RAdd(abross[i], abross[i - 1]), Q(2)),
                                       RSub(rhox[i], rhox[i - 1])))

\* a call with a negative delta and a half-integer increment
C6_Witness ==
    /\ call.op = "calculate_tau"
    /\ call.model.RHOX = <<Q(0), Q(5), Q(2)>>
    /\ call.model.ABROSS = <<Q(1), Q(2), Q(2)>>
    /\ call.ret.TAU = <<Q(0), Rat(15, 2), Rat(3, 2)>>

\* the files the reader parsed
Parsed == {i \in 1..Len(file_paths) : file_paths[i].ok}

\* the i-th entry (1-based) of a finite set of integers in increasing order
RECURSIVE Ascending(_)
Ascending(S) ==
    IF S = {} THEN <<>>
    ELSE LET top == CHOOSE x \in S : \A y \in S : y <= x
         IN  Append(Ascending(S \ {top}), top)

\* C7: a file that fails to parse is skipped and the other files are still
\* processed; if at least one file parses, the constructor succeeds and
\* length() is the number of files that parsed; if none parses, it fails with
\* the empty-dataset error and yields no dataset.
C7_SkipAndCount ==
    /\ status # "new" =>
          /\ skipped = (1..Len(file_paths)) \ Parsed
          /\ Len(models) = Cardinality(Parsed)
          /\ \A k \in 1..Len(models) :
                \A f \in ProfileFeatures \cup ScalarFeatures :
                    models[k][f] = file_paths[Ascending(Parsed)[k]].model[f]
          /\ Parsed # {} => (status = "ready" /\ len(normalized) = Cardinality(Parsed))
          /\ Parsed = {} => (status = "failed" /\ error = "ValueError")
    /\ call.op = "len" => call.out = Cardinality(Parsed)

\* a failing file followed by a file that parses
C7_Witness ==
    /\ status = "ready"
    /\ Len(file_paths) = 2
    /\ Parsed = {2}
    /\ skipped = {1}
    /\ call.op = "len"
    /\ call.out = 1

\* C8: for a constructed dataset with max_depth_points = D and every index i
\* in range, getItem(i) returns input_features of D rows of 5 and
\* output_features of D rows of 6; in every row d the input columns 0..3 are
\* the normalized teff, gravity, feh, afe of model i, input column 4 is the
\* normalized TAU of model i at depth d, and the output columns 0..5 are the
\* normalized RHOX, T, P, XNE, ABROSS, ACCRAD of model i at depth d.
C8_SampleLayout ==
    (call.op = "getitem" /\ call.idx >= 0 /\ call.idx < len(normalized)) =>
        LET model == models[call.idx + 1]
            NormScalar(f, v) == NormalizeAt(norm_params[f], 1, v)
            NormProfile(f, d) ==
                NormalizeAt(norm_params[f], d,
                            pad_sequence(model[f], max_depth_points).out[d])
            input_features == call.item.input_features
            output_features == call.item.output_features
        IN  /\ call.item.err = "none"
            /\ Len(input_features) = max_depth_points
            /\ Len(output_features) = max_depth_points
            /\ \A d \in 1..max_depth_points :
                  /\ Len(input_features[d]) = 5
                  /\ Len(output_features[d]) = 6
                  /\ input_features[d][1] = NormScalar("teff", model.teff)
                  /\ input_features[d][2] = NormScalar("gravity", model.gravity)
                  /\ input_features[d][3] = NormScalar("feh", OrZero(model.feh))
                  /\ input_features[d][4] = NormScalar("afe", OrZero(model.afe))
                  /\ input_features[d][5] = NormProfile("TAU", d)
                  /\ \A i \in 1..6 :
                        output_features[d][i] = NormProfile(columns[i], d)

\* a sample of the second of two models, whose columns differ from each other
C8_Witness ==
    /\ call.op = "getitem"
    /\ call.idx = 1
    /\ max_depth_points = 2
    /\ call.item.err = "none"
    /\ \A d \in 1..2 : \A c \in 1..5 : ~IsNaN(call.item.input_features[d][c])
    /\ \A d \in 1..2 : \A c \in 1..6 : ~IsNaN(call.item.output_features[d][c])
    /\ call.item.input_features[1][5] # call.item.input_features[2][5]
    /\ call.item.input_features[1][1] # call.item.input_features[1][3]
    /\ call.item.output_features[1][3] # call.item.output_features[1][4]

\* the parsed files whose RHOX and ABROSS differ in length
Mismatched ==
    {i \in Parsed : Len(file_paths[i].model.RHOX) # Len(file_paths[i].model.ABROSS)}

\* C9: whenever the RHOX and ABROSS of a model differ in length (either one
\* the longer), tau integration fails and no TAU is produced for the model;
\* the mismatch is never accepted silently, and the error is fatal to the
\* constructor rather than a skipped file.
C9_MismatchIsFatal ==
    (status # "new" /\ Mismatched # {}) =>
        /\ status = "failed"
        /\ \A k \in 1..Len(models) : Len(models[k].RHOX) = Len(models[k].ABROSS)
        /\ Mismatched \cap skipped = {}

\* C10: tau integration commutes with resampling: for equal-length non-empty
\* RHOX and ABROSS and every target length L >= 1, the TAU computed on the
\* native profiles and then padded or truncated to L is the trapezoidal
\* integral of the padded or truncated RHOX and ABROSS.
C10_TauCommutesWithResampling ==
    (/\ call.op = "resample"
     /\ Len(call.model.RHOX) = Len(call.model.ABROSS)
     /\ Len(call.model.RHOX) >= 1) =>
        /\ call.tau.err = "none"
        /\ call.tau.out =
              calculate_tau([RHOX |-> call.rhox.out, ABROSS |-> call.abross.out]).TAU

\* a profile of two points padded to four, with a tau that is not constant
C10_Witness ==
    /\ call.op = "resample"
    /\ call.model.RHOX = <<Q(1), Q(5)>>
    /\ call.model.ABROSS = <<Q(1), Q(2)>>
    /\ call.depth = 4
    /\ call.tau.out = <<Q(0), Q(6), Q(6), Q(6)>>
    /\ call.rhox.out = <<Q(1), Q(5), Q(5), Q(5)>>

====
